---- MODULE Spec2Model ----
(***************************************************************************)
(* dds-tunnel: the heartbeat liveness monitor (heartbeat/heartbeat.py) and *)
(* the process supervisor (start-tunnel.py).                               *)
(*                                                                         *)
(* Three programs are modelled, each with its own specification over its   *)
(* own variables:                                                          *)
(*   InitiatorSpec   heartbeat.py initiator: publishHeartbeat and          *)
(*                   subscribeToAck as two asyncio coroutines on one       *)
(*                   event loop, the bus delivering arbitrary packets.     *)
(*   ResponderSpec   heartbeat.py responder loop.                          *)
(*   SupervisorSpec  start-tunnel.py tcpwanserver / tcpwanclient: launch,  *)
(*                   reader threads, wait_and_print_output, and the        *)
(*                   KeyboardInterrupt handler.                            *)
(***************************************************************************)
EXTENDS Integers, Sequences, FiniteSets, TLC

(* ------------------------------ bounds --------------------------------- *)
\* Heartbeats the send duty publishes in one session (sequence 0..MaxSeq-1).
MaxSeq == 2
\* Packets the bus hands to a reader in one session.
MaxDeliver == 2
\* Readings of the clock: time() ranges over 0..MaxTime.
MaxTime == 1

\* Packets the bus hands to the responder's reader in one session.
MaxRespDeliver == 3
\* Lines the children of one run write, to stdout and stderr together.
MaxLines == 3

(* --------------------------- wire constants ---------------------------- *)
HEARTBEAT == 0
ACK == 1

\* dict.get's answer for a missing key (timestamps are >= 0).
None == -1

\* Sequence numbers a packet on the bus may carry: the ones this session
\* sends, and MaxSeq, which it never sends (another run's packet).
SeqNums == 0..MaxSeq
Packets == [seq : SeqNums, type : {HEARTBEAT, ACK}]

VARIABLES
    \* ---- initiator (heartbeat.py) ----
    pubPc,          \* publishHeartbeat's position
    subPc,          \* subscribeToAck's position
    running,        \* the coroutine the event loop is running: "none", "pub", "sub"
    lockCount,      \* connector_lock (RLock): recursion count of the one thread
    current_seq,    \* publishHeartbeat's counter
    instance,       \* writer.instance: the fields set for the next write
    writelog,       \* sequence -> send timestamp (function on the pending keys)
    published,      \* packets written by the initiator, in order
    inbox,          \* packets available to the initiator's reader
    samples,        \* packets of the current take() not yet iterated
    current_time,   \* subscribeToAck's time() for the drain in progress
    now,            \* the clock
    acklog,         \* printed ACK lines: <<seq, roundtrip ms>> or <<seq, None>>
    iErr,           \* exception that ended the initiator: "none" or "KeyError"
    iStopped,       \* KeyboardInterrupt reached main()
    ackDelivered,   \* history: ACKs the bus has delivered, per sequence
    nDelivered,     \* history: packets the bus has delivered
    \* ---- responder (heartbeat.py) ----
    respPc,         \* responder's position: "wait", "take", "iter"
    rInbox,         \* packets available to the responder's reader
    rSamples,       \* packets of the current take() not yet iterated
    rInstance,      \* writer.instance of the responder
    rPublished,     \* packets written by the responder, in order
    rObserved,      \* history: packets the responder has taken, in order
    rDelivered,     \* history: packets the bus has delivered to the responder
    rStopped,       \* KeyboardInterrupt reached main()
    \* ---- supervisor (start-tunnel.py) ----
    supPc,          \* main thread: "launch", "wait", "signal", "done"
    procs,          \* the list procs: children launched, in order
    idx,            \* wait_and_print_output: position of `for proc in procs`
    hk,             \* the handler's position of `for proc in procs`
    interrupted,    \* KeyboardInterrupt was raised in the try block
    returncode,     \* per child: exit status, None while it has not exited
    pipeOut,        \* per child: lines written to stdout, not yet read
    pipeErr,        \* per child: lines written to stderr, not yet read
    outQ,           \* per child: outQ, lines enqueued by the reader thread
    errQ,           \* per child: errQ
    wroteOut,       \* history, per child: number of lines written to stdout
    wroteErr,       \* history, per child: number of lines written to stderr
    printedOut,     \* history, per child: stdout lines printed, in order
    printedErr,     \* history, per child: stderr lines printed, in order
    signals,        \* history: children sent INT_SIGNAL, in order
    exitReports,    \* history: "exited with return code" lines, <<child, code>>
    supExit         \* the supervisor's own exit status, None while running

ivars == <<pubPc, subPc, running, lockCount, current_seq, instance, writelog,
           published, inbox, samples, current_time, now, acklog, iErr,
           iStopped, ackDelivered, nDelivered>>

rvars == <<respPc, rInbox, rSamples, rInstance, rPublished, rObserved,
           rDelivered, rStopped>>

svars == <<supPc, procs, idx, hk, interrupted, returncode, pipeOut,
           pipeErr, outQ, errQ, wroteOut, wroteErr, printedOut, printedErr,
           signals, exitReports, supExit>>

vars == <<ivars, rvars, svars>>

\* What each program leaves alone: the other programs' state.
notInitiator == <<rvars, svars>>
notResponder == <<ivars, svars>>
notSupervisor == <<ivars, rvars>>

(* ======================================================================= *)
(*                      heartbeat.py : the initiator                       *)
(* ======================================================================= *)

EmptyLog == [s \in {} |-> 0]

\* Variant: only the newest entry is kept (older entries expire).
WritelogPutEvicts(w, seq, t) == [s \in {seq} |-> t]

\* Variant: the timestamp is not recorded.
WritelogPutSkips(w, seq, t) == w

\* writelog[current_seq] = time()
WritelogPut(w, seq, t) ==
    [s \in (DOMAIN w) \cup {seq} |-> IF s = seq THEN t ELSE w[s]]

\* writelog.get(seq)
WritelogGet(w, seq) == IF seq \in DOMAIN w THEN w[seq] ELSE None

\* Variant: the whole table is emptied.
WritelogDelClears(w, seq) == [s \in {} |-> 0]

\* Variant: the entry is looked up but left in the table.
WritelogDelKeeps(w, seq) == w

\* del writelog[seq], for a key that is present
WritelogDel(w, seq) == [s \in (DOMAIN w) \ {seq} |-> w[s]]

\* (current_time - outgoing_time) * 1000
RoundTripMs(cur, out) == (cur - out) * 1000

\* Variant: an await placed inside publishHeartbeat's with block, between
\* setting the fields and writer.write().
AwaitPointsInsideLock == {"suspended", "set"}

\* Positions at which a coroutine is suspended: before its first step and in
\* `await asyncio.sleep(..)`, the only places where the event loop can switch
\* to the other coroutine.
AwaitPoints == {"suspended"}

\* Positions inside `with connector_lock:`, i.e. inside an interaction with
\* the connector (set fields + write, or take + iterate samples).
InLock == {"locked", "set", "iter"}

\* A coroutine runs when the loop is already running it, or when the loop is
\* idle and the coroutine is suspended (not yet started, or in an await whose
\* sleep is over).
CanRun(co, pc) ==
    \/ running = co
    \/ running = "none" /\ pc \in AwaitPoints

\* After a step that leaves the coroutine at pc, the loop keeps running it
\* unless pc is an await.
Handoff(co, pc) == IF pc \in AwaitPoints THEN "none" ELSE co

InitiatorAlive == iErr = "none" /\ ~iStopped

InitiatorInit ==
    /\ pubPc = "suspended"
    /\ subPc = "suspended"
    /\ running = "none"
    /\ lockCount = 0
    /\ current_seq = 0
    /\ instance = [seq |-> 0, type |-> HEARTBEAT]
    /\ writelog = EmptyLog
    /\ published = << >>
    /\ inbox = << >>
    /\ samples = << >>
    /\ current_time = 0
    /\ now = 0
    /\ acklog = << >>
    /\ iErr = "none"
    /\ iStopped = FALSE
    /\ ackDelivered = [s \in SeqNums |-> 0]
    /\ nDelivered = 0

\* publishHeartbeat: print "Sending heartbeat seq ..", enter `with connector_lock`
\* (an RLock: the event loop's one thread always acquires it).
PubAcquire ==
    /\ UNCHANGED notInitiator
    /\ InitiatorAlive
    /\ pubPc = "suspended"
    /\ CanRun("pub", pubPc)
    /\ current_seq < MaxSeq
    /\ running' = Handoff("pub", "locked")
    /\ lockCount' = lockCount + 1
    /\ pubPc' = "locked"
    /\ UNCHANGED <<subPc, current_seq, instance, writelog, published, inbox,
                   samples, current_time, now, acklog, iErr, iStopped,
                   ackDelivered, nDelivered>>

\* set_number("seq"), set_number("type"), writelog[current_seq] = time()
PubSet ==
    /\ UNCHANGED notInitiator
    /\ InitiatorAlive
    /\ pubPc = "locked"
    /\ CanRun("pub", pubPc)
    /\ instance' = [seq |-> current_seq, type |-> HEARTBEAT]
    /\ writelog' = WritelogPut(writelog, current_seq, now)
    /\ pubPc' = "set"
    /\ running' = Handoff("pub", "set")
    /\ UNCHANGED <<subPc, lockCount, current_seq, published, inbox,
                   samples, current_time, now, acklog, iErr, iStopped,
                   ackDelivered, nDelivered>>

\* writer.write(), leave the with block, current_seq += 1, await sleep(period)
PubWrite ==
    /\ UNCHANGED notInitiator
    /\ InitiatorAlive
    /\ pubPc = "set"
    /\ CanRun("pub", pubPc)
    /\ published' = Append(published, instance)
    /\ lockCount' = lockCount - 1
    /\ current_seq' = current_seq + 1
    /\ pubPc' = "suspended"
    /\ running' = Handoff("pub", "suspended")
    /\ UNCHANGED <<subPc, instance, writelog, inbox, samples, current_time,
                   now, acklog, iErr, iStopped, ackDelivered, nDelivered>>

\* subscribeToAck: current_time = time()
SubTime ==
    /\ UNCHANGED notInitiator
    /\ InitiatorAlive
    /\ subPc = "suspended"
    /\ CanRun("sub", subPc)
    /\ current_time' = now
    /\ subPc' = "timed"
    /\ running' = Handoff("sub", "timed")
    /\ UNCHANGED <<pubPc, lockCount, current_seq, instance, writelog,
                   published, inbox, samples, now, acklog, iErr, iStopped,
                   ackDelivered, nDelivered>>

\* enter `with connector_lock`, reader.take(): the available packets become
\* reader.samples.
SubTake ==
    /\ UNCHANGED notInitiator
    /\ InitiatorAlive
    /\ subPc = "timed"
    /\ CanRun("sub", subPc)
    /\ lockCount' = lockCount + 1
    /\ samples' = inbox
    /\ inbox' = << >>
    /\ subPc' = "iter"
    /\ running' = Handoff("sub", "iter")
    /\ UNCHANGED <<pubPc, current_seq, instance, writelog, published,
                   current_time, now, acklog, iErr, iStopped, ackDelivered,
                   nDelivered>>

\* The line subscribeToAck prints for an ACK once `del` has succeeded.
AckLine(seq, outgoing_time, cur) ==
    IF outgoing_time = None
    THEN <<seq, None>>
    ELSE <<seq, RoundTripMs(cur, outgoing_time)>>

\* Variant: no sample is skipped.
SkipsNonAckNever(msg_type) == FALSE

\* `if msg_type != MessageType.ACK: continue`
SkipsNonAck(msg_type) == msg_type # ACK

\* `del writelog[seq]` raises KeyError when seq is not a key.
DelRaises(w, seq) == seq \notin DOMAIN w

\* One pass of `for sample in reader.samples.valid_data_iter`.
SubSample ==
    /\ UNCHANGED notInitiator
    /\ InitiatorAlive
    /\ subPc = "iter"
    /\ CanRun("sub", subPc)
    /\ samples # << >>
    /\ LET sample == Head(samples)
           seq == sample.seq
           outgoing_time == WritelogGet(writelog, seq)
       IN  IF SkipsNonAck(sample.type)
           THEN \* continue
                /\ samples' = Tail(samples)
                /\ UNCHANGED <<subPc, running, lockCount, writelog, acklog, iErr>>
           ELSE IF DelRaises(writelog, seq)
           THEN \* KeyError leaves the with block and ends asyncio.run
                /\ iErr' = "KeyError"
                /\ subPc' = "raised"
                /\ lockCount' = lockCount - 1
                /\ running' = "none"
                /\ samples' = Tail(samples)
                /\ UNCHANGED <<writelog, acklog>>
           ELSE /\ writelog' = WritelogDel(writelog, seq)
                /\ acklog' = Append(acklog, AckLine(seq, outgoing_time, current_time))
                /\ samples' = Tail(samples)
                /\ UNCHANGED <<subPc, running, lockCount, iErr>>
    /\ UNCHANGED <<pubPc, current_seq, instance, published, inbox,
                   current_time, now, iStopped, ackDelivered, nDelivered>>

\* The samples are exhausted: leave the with block, await asyncio.sleep(0.001)
SubRelease ==
    /\ UNCHANGED notInitiator
    /\ InitiatorAlive
    /\ subPc = "iter"
    /\ CanRun("sub", subPc)
    /\ samples = << >>
    /\ lockCount' = lockCount - 1
    /\ subPc' = "suspended"
    /\ running' = Handoff("sub", "suspended")
    /\ UNCHANGED <<pubPc, current_seq, instance, writelog, published, inbox,
                   samples, current_time, now, acklog, iErr, iStopped,
                   ackDelivered, nDelivered>>

\* The bus makes a packet available to the initiator's reader: an ACK of the
\* responder, a duplicate, another run's packet, or a heartbeat seen on the
\* shared topic.
BusDeliver ==
    /\ UNCHANGED notInitiator
    /\ InitiatorAlive
    /\ nDelivered < MaxDeliver
    /\ \E p \in Packets :
        /\ inbox' = Append(inbox, p)
        /\ ackDelivered' = IF p.type = ACK
                           THEN [ackDelivered EXCEPT ![p.seq] = @ + 1]
                           ELSE ackDelivered
    /\ nDelivered' = nDelivered + 1
    /\ UNCHANGED <<pubPc, subPc, running, lockCount, current_seq, instance,
                   writelog, published, samples, current_time, now, acklog,
                   iErr, iStopped>>

\* Time passes.
Tick ==
    /\ UNCHANGED notInitiator
    /\ InitiatorAlive
    /\ now < MaxTime
    /\ now' = now + 1
    /\ UNCHANGED <<pubPc, subPc, running, lockCount, current_seq, instance,
                   writelog, published, inbox, samples, current_time, acklog,
                   iErr, iStopped, ackDelivered, nDelivered>>

\* KeyboardInterrupt: asyncio.run cancels both coroutines (a with block being
\* unwound releases the lock) and main() prints "Stopping...".
InitiatorInterrupt ==
    /\ UNCHANGED notInitiator
    /\ InitiatorAlive
    /\ iStopped' = TRUE
    /\ lockCount' = 0
    /\ running' = "none"
    /\ UNCHANGED <<pubPc, subPc, current_seq, instance, writelog, published,
                   inbox, samples, current_time, now, acklog, iErr,
                   ackDelivered, nDelivered>>

InitiatorNext ==
    \/ PubAcquire \/ PubSet \/ PubWrite
    \/ SubTime \/ SubTake \/ SubSample \/ SubRelease
    \/ BusDeliver \/ Tick \/ InitiatorInterrupt

(* ======================================================================= *)
(*                      heartbeat.py : the responder                       *)
(* ======================================================================= *)

ResponderInit ==
    /\ respPc = "wait"
    /\ rInbox = << >>
    /\ rSamples = << >>
    /\ rInstance = [seq |-> 0, type |-> HEARTBEAT]
    /\ rPublished = << >>
    /\ rObserved = << >>
    /\ rDelivered = 0
    /\ rStopped = FALSE

\* Variant: no sample is skipped.
SkipsSampleNever(msg_type) == FALSE

\* `if msg_type != MessageType.HEARTBEAT: continue`
SkipsSample(msg_type) == msg_type # HEARTBEAT

\* The fields the responder sets before writer.write()
AckFields(seq) == [seq |-> seq, type |-> ACK]

\* reader.wait(500) returns: data arrived, or the timeout was caught.
RespWait ==
    /\ UNCHANGED notResponder
    /\ ~rStopped
    /\ respPc = "wait"
    /\ respPc' = "take"
    /\ UNCHANGED <<rInbox, rSamples, rInstance, rPublished, rObserved,
                   rDelivered, rStopped>>

\* enter `with connector_lock`, reader.take()
RespTake ==
    /\ UNCHANGED notResponder
    /\ ~rStopped
    /\ respPc = "take"
    /\ rSamples' = rInbox
    /\ rObserved' = rObserved \o rInbox
    /\ rInbox' = << >>
    /\ respPc' = "iter"
    /\ UNCHANGED <<rInstance, rPublished, rDelivered, rStopped>>

\* One pass of `for sample in reader.samples.valid_data_iter`.
RespSample ==
    /\ UNCHANGED notResponder
    /\ ~rStopped
    /\ respPc = "iter"
    /\ rSamples # << >>
    /\ LET sample == Head(rSamples)
       IN  IF SkipsSample(sample.type)
           THEN UNCHANGED <<rInstance, rPublished>>
           ELSE /\ rInstance' = AckFields(sample.seq)
                /\ rPublished' = Append(rPublished, rInstance')
    /\ rSamples' = Tail(rSamples)
    /\ UNCHANGED <<respPc, rInbox, rObserved, rDelivered, rStopped>>

\* The samples are exhausted: leave the with block, back to reader.wait.
RespRelease ==
    /\ UNCHANGED notResponder
    /\ ~rStopped
    /\ respPc = "iter"
    /\ rSamples = << >>
    /\ respPc' = "wait"
    /\ UNCHANGED <<rInbox, rSamples, rInstance, rPublished, rObserved,
                   rDelivered, rStopped>>

\* The bus makes a packet available to the responder's reader.
RespDeliver ==
    /\ UNCHANGED notResponder
    /\ ~rStopped
    /\ rDelivered < MaxRespDeliver
    /\ \E p \in Packets : rInbox' = Append(rInbox, p)
    /\ rDelivered' = rDelivered + 1
    /\ UNCHANGED <<respPc, rSamples, rInstance, rPublished, rObserved, rStopped>>

\* KeyboardInterrupt: main() prints "Stopping..." and the process ends.
RespInterrupt ==
    /\ UNCHANGED notResponder
    /\ ~rStopped
    /\ rStopped' = TRUE
    /\ UNCHANGED <<respPc, rInbox, rSamples, rInstance, rPublished, rObserved,
                   rDelivered>>

\* The responder's own steps (one thread; reader.wait is bounded by 500 ms).
ResponderStep == RespWait \/ RespTake \/ RespSample \/ RespRelease

ResponderNext ==
    \/ RespWait \/ RespTake \/ RespSample \/ RespRelease
    \/ RespDeliver \/ RespInterrupt

(* ======================================================================= *)
(*                     start-tunnel.py : the supervisor                    *)
(* ======================================================================= *)

\* tcpwanserver / tcpwanclient launch the routing service and, unless
\* --no-heartbeat is given, the heartbeat program.
MaxProcs == 2
Children == 1..MaxProcs

\* Exit statuses a child may end with.
ExitCodes == {0, 7}

SupervisorInit ==
    /\ supPc = "launch"
    /\ procs = << >>
    /\ idx = 1
    /\ hk = 1
    /\ interrupted = FALSE
    /\ returncode = [c \in Children |-> None]
    /\ pipeOut = [c \in Children |-> << >>]
    /\ pipeErr = [c \in Children |-> << >>]
    /\ outQ = [c \in Children |-> << >>]
    /\ errQ = [c \in Children |-> << >>]
    /\ wroteOut = [c \in Children |-> 0]
    /\ wroteErr = [c \in Children |-> 0]
    /\ printedOut = [c \in Children |-> << >>]
    /\ printedErr = [c \in Children |-> << >>]
    /\ signals = << >>
    /\ exitReports = << >>
    /\ supExit = None

\* history: the lines written so far by the children launched (at most two).
LinesWritten == wroteOut[1] + wroteErr[1] + wroteOut[2] + wroteErr[2]

Launched(c) == \E k \in 1..Len(procs) : procs[k] = c
Running(c) == Launched(c) /\ returncode[c] = None

\* Variant: q.get(), which blocks until the queue holds a line.
ReadlineReturnsWhenLine(q) == q # << >>

\* readline_nowait returns at once, whatever the queue holds: q.get_nowait()
\* never blocks, and Empty is caught.
ReadlineReturns(q) == TRUE

\* readline_nowait: q.get_nowait(), None on Empty
ReadlineNowait(q) == IF q = << >> THEN None ELSE Head(q)

\* Variant: the line is read but left at the head of the queue.
AfterReadlineKeeps(q) == q

\* The queue after readline_nowait.
AfterReadline(q) == IF q = << >> THEN q ELSE Tail(q)

\* `if output: print(...)`: the printed lines after one readline.
Printed(sofar, line) == IF line # None THEN Append(sofar, line) ELSE sofar

\* Variant: the first child of the group is polled, whichever child the
\* loop is at.
PollFirstOfGroup(c) == returncode[procs[1]]

\* proc['process'].poll()
Poll(c) == returncode[c]

\* `for proc in procs` inside `while True`: the position after procs[i].
NextIdx(i) == IF i < Len(procs) THEN i + 1 ELSE 1

\* Variant: the script exits with the status of the child it saw exit.
ScriptExitStatusOfChild(return_code) ==
    IF return_code # None THEN return_code ELSE 0

\* The script runs off its end after args.func(args) returns, whatever
\* return code wait_and_print_output last printed (None: it printed none).
ScriptExitStatus(return_code) == 0

\* Variant: the siblings are signalled after a first exit, interrupt or not.
AfterWaitReturnsSignalsSiblings ==
    IF Len(signals) < Len(procs) THEN "signal" ELSE "done"

\* Variant: the handler leaves its for loop after the first pass.
AfterWaitReturnsLeaves == "done"

\* Where the main thread goes when wait_and_print_output returns: the end of
\* the script from the try block, the next pass of the handler's for loop
\* from the except block.
AfterWaitReturns ==
    IF ~interrupted THEN "done"
    ELSE IF hk < Len(procs) THEN "signal" ELSE "done"

\* popen_nonblocking and procs.append: the next child is started with its
\* reader threads.  After the routing service, `if not args.no_heartbeat`
\* decides whether the heartbeat program is launched too.
Launch ==
    /\ UNCHANGED notSupervisor
    /\ supPc = "launch"
    /\ Len(procs) < MaxProcs
    /\ procs' = Append(procs, Len(procs) + 1)
    /\ \E no_heartbeat \in BOOLEAN :
          supPc' = IF Len(procs') = MaxProcs \/ no_heartbeat
                   THEN "wait" ELSE "launch"
    /\ idx' = 1
    /\ UNCHANGED <<hk, interrupted, returncode, pipeOut, pipeErr,
                   outQ, errQ, wroteOut, wroteErr, printedOut, printedErr,
                   signals, exitReports, supExit>>

\* One pass of `for proc in procs` in wait_and_print_output: at most one
\* stdout line and one stderr line are printed, then the child is polled.
WaitPass ==
    /\ UNCHANGED notSupervisor
    /\ supPc = "wait"
    /\ ReadlineReturns(outQ[procs[idx]])
    /\ ReadlineReturns(errQ[procs[idx]])
    /\ LET c == procs[idx]
           output == ReadlineNowait(outQ[c])
           err == ReadlineNowait(errQ[c])
           return_code == Poll(c)
       IN  /\ outQ' = [outQ EXCEPT ![c] = AfterReadline(@)]
           /\ errQ' = [errQ EXCEPT ![c] = AfterReadline(@)]
           /\ printedOut' = [printedOut EXCEPT ![c] = Printed(@, output)]
           /\ printedErr' = [printedErr EXCEPT ![c] = Printed(@, err)]
           /\ IF return_code # None
              THEN /\ exitReports' = Append(exitReports, <<c, return_code>>)
                   /\ supPc' = AfterWaitReturns
                   /\ hk' = IF interrupted THEN hk + 1 ELSE hk
                   /\ supExit' = IF supPc' = "done"
                                THEN ScriptExitStatus(return_code) ELSE None
                   /\ idx' = 1
              ELSE /\ idx' = NextIdx(idx)
                   /\ UNCHANGED <<exitReports, supPc, hk, supExit>>
    /\ UNCHANGED <<procs, interrupted, returncode, pipeOut, pipeErr,
                   wroteOut, wroteErr, signals>>

\* KeyboardInterrupt raised in the try block: 'Stopping all processes...',
\* and the handler's for loop starts (or ends at once when procs is empty).
Interrupt ==
    /\ UNCHANGED notSupervisor
    /\ supPc \in {"launch", "wait"}
    /\ ~interrupted
    /\ interrupted' = TRUE
    /\ hk' = 1
    /\ supPc' = IF procs = << >> THEN "done" ELSE "signal"
    /\ supExit' = IF procs = << >> THEN ScriptExitStatus(None) ELSE None
    /\ UNCHANGED <<procs, idx, returncode, pipeOut, pipeErr, outQ,
                   errQ, wroteOut, wroteErr, printedOut, printedErr, signals,
                   exitReports>>

\* The handler's `proc['process'].send_signal(INT_SIGNAL)`, followed by the
\* call of wait_and_print_output in the same pass of the for loop.
HandlerSignal ==
    /\ UNCHANGED notSupervisor
    /\ supPc = "signal"
    /\ signals' = Append(signals, procs[hk])
    /\ supPc' = "wait"
    /\ idx' = 1
    /\ UNCHANGED <<procs, hk, interrupted, returncode, pipeOut,
                   pipeErr, outQ, errQ, wroteOut, wroteErr, printedOut,
                   printedErr, exitReports, supExit>>

\* A running child writes its next line to stdout.
ChildWriteOut ==
    /\ UNCHANGED notSupervisor
    /\ supPc # "done"
    /\ \E c \in Children :
        /\ Running(c)
        /\ LinesWritten < MaxLines
        /\ wroteOut' = [wroteOut EXCEPT ![c] = @ + 1]
        /\ pipeOut' = [pipeOut EXCEPT ![c] = Append(@, wroteOut[c] + 1)]
    /\ UNCHANGED <<supPc, procs, idx, hk, interrupted, returncode,
                   pipeErr, outQ, errQ, wroteErr, printedOut, printedErr,
                   signals, exitReports, supExit>>

\* A running child writes its next line to stderr.
ChildWriteErr ==
    /\ UNCHANGED notSupervisor
    /\ supPc # "done"
    /\ \E c \in Children :
        /\ Running(c)
        /\ LinesWritten < MaxLines
        /\ wroteErr' = [wroteErr EXCEPT ![c] = @ + 1]
        /\ pipeErr' = [pipeErr EXCEPT ![c] = Append(@, wroteErr[c] + 1)]
    /\ UNCHANGED <<supPc, procs, idx, hk, interrupted, returncode,
                   pipeOut, outQ, errQ, wroteOut, printedOut, printedErr,
                   signals, exitReports, supExit>>

\* A running child exits, of its own accord or on a signal.
ChildExit ==
    /\ UNCHANGED notSupervisor
    /\ supPc # "done"
    /\ \E c \in Children, code \in ExitCodes :
        /\ Running(c)
        /\ returncode' = [returncode EXCEPT ![c] = code]
    /\ UNCHANGED <<supPc, procs, idx, hk, interrupted, pipeOut,
                   pipeErr, outQ, errQ, wroteOut, wroteErr, printedOut,
                   printedErr, signals, exitReports, supExit>>

\* enqueue_output of a stdout reader thread: one line from the pipe to outQ.
ReaderOut ==
    /\ UNCHANGED notSupervisor
    /\ supPc # "done"
    /\ \E c \in Children :
        /\ pipeOut[c] # << >>
        /\ outQ' = [outQ EXCEPT ![c] = Append(@, Head(pipeOut[c]))]
        /\ pipeOut' = [pipeOut EXCEPT ![c] = Tail(@)]
    /\ UNCHANGED <<supPc, procs, idx, hk, interrupted, returncode,
                   pipeErr, errQ, wroteOut, wroteErr, printedOut, printedErr,
                   signals, exitReports, supExit>>

\* enqueue_output of a stderr reader thread.
ReaderErr ==
    /\ UNCHANGED notSupervisor
    /\ supPc # "done"
    /\ \E c \in Children :
        /\ pipeErr[c] # << >>
        /\ errQ' = [errQ EXCEPT ![c] = Append(@, Head(pipeErr[c]))]
        /\ pipeErr' = [pipeErr EXCEPT ![c] = Tail(@)]
    /\ UNCHANGED <<supPc, procs, idx, hk, interrupted, returncode,
                   pipeOut, outQ, wroteOut, wroteErr, printedOut, printedErr,
                   signals, exitReports, supExit>>

\* The main thread's own steps.
MainStep == Launch \/ WaitPass \/ HandlerSignal

\* The reader threads' steps.
ReaderStep == ReaderOut \/ ReaderErr

SupervisorNext ==
    \/ Launch \/ WaitPass \/ Interrupt \/ HandlerSignal
    \/ ChildWriteOut \/ ChildWriteErr \/ ChildExit
    \/ ReaderOut \/ ReaderErr

(* ======================================================================= *)
(*                            specifications                               *)
(* ======================================================================= *)

Init == InitiatorInit /\ ResponderInit /\ SupervisorInit

InitiatorSpec == Init /\ [][InitiatorNext]_vars

ResponderSpec == Init /\ [][ResponderNext]_vars

\* The responder is a running thread: whenever it has a step, it takes it.
ResponderFairSpec == ResponderSpec /\ WF_vars(ResponderStep)

SupervisorSpec == Init /\ [][SupervisorNext]_vars

\* The main thread is a running thread: whenever it has a step, it takes it.
\* Nothing is assumed of the children, of the reader threads or of the
\* operator.
SupervisorFairSpec == SupervisorSpec /\ WF_vars(MainStep)

(* ======================================================================= *)
(*                               claims                                    *)
(* ======================================================================= *)

\* C1 (as claimed): an ACK whose sequence is not in the PendingAckTable does
\* not raise an error in subscribeToAck.
C1_UnmatchedAckRaisesNoError == iErr = "none"

\* The round-trip measurements logged so far.
Measurements == {i \in 1..Len(acklog) : acklog[i][2] # None}

\* The initiator is between iterations of both duties, every delivered packet
\* has been drained and iterated, and the ACK of each heartbeat sent so far
\* (and of no other sequence) has been delivered exactly once.
C2_EveryAckDeliveredOnce ==
    /\ pubPc = "suspended"
    /\ subPc = "suspended"
    /\ inbox = << >>
    /\ samples = << >>
    /\ \A s \in SeqNums : ackDelivered[s] = (IF s < current_seq THEN 1 ELSE 0)

\* C2: when N heartbeats were sent and the ACK of each was delivered exactly
\* once, in any order and under any interleaving, then once all ACKs are
\* processed the PendingAckTable is empty and exactly N round-trip
\* measurements were logged, each non-negative.
C2_AllAcksMatched ==
    C2_EveryAckDeliveredOnce =>
        /\ DOMAIN writelog = {}
        /\ Len(published) = current_seq
        /\ Cardinality(Measurements) = current_seq
        /\ Len(acklog) = current_seq
        /\ \A i \in Measurements : acklog[i][2] >= 0

\* Two heartbeats, both acknowledged, one of them with a positive round trip.
C2_Witness ==
    /\ C2_EveryAckDeliveredOnce
    /\ current_seq = 2
    /\ \E i \in 1..Len(acklog) : acklog[i][2] > 0

\* C10: the send duty and the receive duty are never both inside an
\* interaction with the connector; each interaction is one critical section
\* under connector_lock, which is held exactly while a duty is inside one.
C10_MutualExclusion ==
    /\ ~(pubPc \in InLock /\ subPc \in InLock)
    /\ lockCount \in {0, 1}
    /\ InitiatorAlive =>
          (lockCount = 1 <=> (pubPc \in InLock \/ subPc \in InLock))

\* The send duty is inside its publish while the receive duty, which has
\* already drained once, is suspended.
C10_Witness ==
    /\ InitiatorAlive
    /\ pubPc = "set"
    /\ subPc = "suspended"
    /\ Len(acklog) > 0

\* The ACKs owed for a sequence of taken packets: one per heartbeat, in order.
RECURSIVE OwedAcks(_)
OwedAcks(taken) ==
    IF taken = << >> THEN << >>
    ELSE IF Head(taken).type = HEARTBEAT
         THEN <<[seq |-> Head(taken).seq, type |-> ACK]>> \o OwedAcks(Tail(taken))
         ELSE OwedAcks(Tail(taken))

IsPrefix(a, b) == Len(a) <= Len(b) /\ SubSeq(b, 1, Len(a)) = a

\* The ACKs published are, in order, those owed for the packets iterated so far.
C3_AcksInOrder ==
    /\ IsPrefix(rPublished, OwedAcks(rObserved))
    /\ respPc = "wait" => rPublished = OwedAcks(rObserved)

\* C3: for every HEARTBEAT with sequence S the responder takes, exactly one
\* ACK with sequence S is eventually published (the responder running on),
\* the ACKs are published in the order the heartbeats were observed, and no
\* ACK is published for an observed ACK.
C3_EveryHeartbeatAcked ==
    /\ []C3_AcksInOrder
    /\ \A k \in 1..MaxRespDeliver :
          (Len(OwedAcks(rObserved)) >= k) ~> (Len(rPublished) >= k \/ rStopped)

\* Two heartbeats and an ACK were taken, and both heartbeats were answered.
C3_Witness ==
    /\ Len(rPublished) = 2
    /\ \E i \in 1..Len(rObserved) : rObserved[i].type = ACK
    /\ rPublished[1].seq # rPublished[2].seq

\* The lines 1..n, in the order a child writes them.
Lines(n) == [k \in 1..n |-> k]

\* Every exit report names a child that has exited, with its exit status.
C4_ReportsAreExits ==
    \A k \in 1..Len(exitReports) :
        /\ Launched(exitReports[k][1])
        /\ returncode[exitReports[k][1]] # None
        /\ exitReports[k][2] = returncode[exitReports[k][1]]

\* C4: without an interrupt, once a child of the group has exited the
\* supervision loop terminates; it reports one exit, that of a child which
\* has exited, with that child's code; no running child is reported exited.
C4_FirstExitEndsGroup ==
    /\ []C4_ReportsAreExits
    /\ [](supPc = "done" /\ ~interrupted => Len(exitReports) = 1)
    /\ (\E c \in Children : returncode[c] # None)
          ~> (supPc = "done" \/ interrupted)

\* The second child exited with code 7 while the first keeps running, and
\* the run ended reporting exactly that.
C4_Witness ==
    /\ supPc = "done"
    /\ ~interrupted
    /\ exitReports = << <<2, 7>> >>
    /\ returncode[1] = None

\* C5: when the supervisor exits after an interrupt, INT_SIGNAL has been sent
\* to every child of the group.
C5_AllSignalledBeforeExit ==
    (supPc = "done" /\ interrupted) =>
        \A k \in 1..Len(procs) : \E j \in 1..Len(signals) : signals[j] = procs[k]

\* Both children were running when the interrupt came, and the supervisor
\* has exited.
C5_Witness ==
    /\ supPc = "done"
    /\ interrupted
    /\ Len(procs) = MaxProcs
    /\ Len(signals) = MaxProcs
    /\ \A c \in Children : returncode[c] # None

\* C6 (as claimed): when the supervisor exits after an interrupt, every line
\* a terminated child wrote to stdout or stderr has been printed.
C6_NoLineLeftUnprinted ==
    (supPc = "done" /\ interrupted) =>
        \A c \in Children :
            returncode[c] # None =>
                /\ printedOut[c] = Lines(wroteOut[c])
                /\ printedErr[c] = Lines(wroteErr[c])

\* C7 (as claimed): when the supervisor exits after an interrupt that every
\* child honoured, each child of the group has an exit report.
C7_EveryExitReported ==
    (/\ supPc = "done"
     /\ interrupted
     /\ \A k \in 1..Len(procs) : returncode[procs[k]] # None) =>
        \A k \in 1..Len(procs) :
            \E j \in 1..Len(exitReports) : exitReports[j][1] = procs[k]

\* C8 (as claimed): without an interrupt, all lines a child wrote to stdout
\* are printed, in order; stated at the end of the run, after which nothing
\* more is printed.
C8_AllLinesSurfaced ==
    (supPc = "done" /\ ~interrupted) =>
        \A c \in Children : printedOut[c] = Lines(wroteOut[c])

\* C9 (as claimed): the supervisor exits with 0 after an interrupt, and with
\* the child's code when the run ended on a child exiting with non-zero code.
C9_ExitStatusPropagated ==
    supPc = "done" =>
        /\ interrupted => supExit = 0
        /\ (~interrupted /\ exitReports[Len(exitReports)][2] # 0) =>
               supExit = exitReports[Len(exitReports)][2]

\* C9 (amended): the supervisor's exit status is 0 however the run ends, on
\* an interrupt or on a child's exit with any code; the child's code is
\* printed in the exit report and nowhere else.
C9_ExitStatusAlwaysZero ==
    /\ supPc = "done" => supExit = 0
    /\ supPc # "done" => supExit = None

\* The run ended on a child exiting with code 7, and the supervisor's own
\* status is 0.
C9_Witness ==
    /\ supPc = "done"
    /\ ~interrupted
    /\ exitReports # << >>
    /\ exitReports[Len(exitReports)][2] = 7
    /\ supExit = 0

\* C11 (as claimed): after an interrupt the supervisor signals every child of
\* the group, in group order, and only then re-enters the drain-and-report
\* loop: whenever it is in that loop after an interrupt, the signals sent are
\* exactly the group, in order, whether or not any child has exited.
C11_AllSignalledBeforeDrain ==
    (interrupted /\ supPc = "wait") => signals = procs

\* C12 (as claimed): whatever the bus delivers, neither duty stops the other:
\* until an interrupt occurs both duties keep running, so that the send duty
\* goes on to publish every sequence number and the receive duty to drain.
C12_NeitherDutyStopsTheOther ==
    [][InitiatorAlive => (InitiatorAlive' \/ iStopped')]_vars

\* Sequence numbers sent as heartbeats, and those whose ACK was processed.
SentSeqs == {published[k].seq : k \in 1..Len(published)}
AckedSeqs == {acklog[i][1] : i \in 1..Len(acklog)}

\* Neither duty is inside its critical section.
BetweenCriticalSections == pubPc \notin InLock /\ subPc \notin InLock

\* C13: between critical sections, the keys of the PendingAckTable are exactly
\* the sequence numbers sent as heartbeats minus those whose ACK has been
\* processed.
C13_TableIsSentMinusAcked ==
    BetweenCriticalSections => DOMAIN writelog = SentSeqs \ AckedSeqs

\* Two heartbeats were sent, the ACK of the first was processed, the second
\* is still pending.
C13_Witness ==
    /\ BetweenCriticalSections
    /\ SentSeqs = {0, 1}
    /\ AckedSeqs = {0}
    /\ DOMAIN writelog = {1}

\* C14: the k-th heartbeat published carries sequence k-1 and kind HEARTBEAT
\* (sequences start at 0 and increase by one, no repeats), and at the moment
\* a sequence is about to be written its send timestamp is already in the
\* PendingAckTable, so no processed ACK of a published heartbeat lacks one.
C14_SequencesInOrder ==
    /\ \A k \in 1..Len(published) :
          published[k] = [seq |-> k - 1, type |-> HEARTBEAT]
    /\ pubPc = "set" =>
          /\ instance = [seq |-> Len(published), type |-> HEARTBEAT]
          /\ instance.seq \in DOMAIN writelog
    /\ SentSeqs \subseteq (DOMAIN writelog) \cup AckedSeqs
    /\ \A i \in 1..Len(acklog) : acklog[i][2] # None

\* The second heartbeat is about to be written while the first is published
\* and already acknowledged.
C14_Witness ==
    /\ InitiatorAlive
    /\ pubPc = "set"
    /\ Len(published) = 1
    /\ AckedSeqs = {0}

\* A pass of the polling loop that reports no exit was at a child that has
\* not exited, and leaves the loop at the next child of the group.
C15_PassMovesOn ==
    (supPc = "wait" /\ supPc' = "wait" /\ idx' # idx) =>
        /\ returncode[procs[idx]] = None
        /\ idx' = (idx % Len(procs)) + 1

\* C15: a pass of the polling loop never waits on an empty stdout or stderr
\* queue, so a child without output does not hold up the loop: each pass that
\* finds its child running moves on to the next child, and once a child of
\* the group has exited an exit is reported.
C15_NoChildBlocksAnother ==
    /\ [](supPc = "wait" => ENABLED WaitPass)
    /\ [][C15_PassMovesOn]_vars
    /\ (\E c \in Children : Launched(c) /\ returncode[c] # None)
          ~> (exitReports # << >>)

\* The first child wrote nothing and keeps running; the exit of the second
\* was reported.
C15_Witness ==
    /\ Len(procs) = 2
    /\ wroteOut[1] = 0
    /\ wroteErr[1] = 0
    /\ returncode[1] = None
    /\ exitReports = << <<2, 0>> >>

\* C16: for each child and each of its streams, the lines printed are at
\* every moment a prefix of the lines the child wrote to that stream: no
\* reordering, no duplication, no skipped line; the lines not yet printed
\* wait, in order, in the queue and then in the pipe.
C16_PrintedIsPrefixOfWritten ==
    \A c \in Children :
        /\ IsPrefix(printedOut[c], Lines(wroteOut[c]))
        /\ IsPrefix(printedErr[c], Lines(wroteErr[c]))
        /\ printedOut[c] \o outQ[c] \o pipeOut[c] = Lines(wroteOut[c])
        /\ printedErr[c] \o errQ[c] \o pipeErr[c] = Lines(wroteErr[c])

\* A child has had two stdout lines and one stderr line printed.
C16_Witness ==
    \E c \in Children :
        /\ printedOut[c] = <<1, 2>>
        /\ printedErr[c] = <<1>>

\* C17: without an operator interrupt the supervisor sends no termination
\* signal; in particular, when supervision has ended on a child's exit, the
\* remaining children have not been signalled.
C17_NoSignalWithoutInterrupt ==
    ~interrupted => signals = << >>

\* Supervision ended on the first child's exit, without interrupt, while the
\* second child is still running.
C17_Witness ==
    /\ supPc = "done"
    /\ ~interrupted
    /\ Len(procs) = 2
    /\ exitReports # << >>
    /\ exitReports[1][1] = 1
    /\ returncode[2] = None

\* The receive duty is about to iterate a sample of the current drain.
AtSample == InitiatorAlive /\ subPc = "iter" /\ samples # << >>

\* A step that removes entry s from the table is the receive duty iterating
\* an ACK with sequence s.
C18_RemovedOnlyByItsAck ==
    \A s \in DOMAIN writelog :
        s \notin DOMAIN writelog' =>
            /\ AtSample
            /\ Head(samples) = [seq |-> s, type |-> ACK]
            /\ samples' = Tail(samples)

\* C18: an entry of the PendingAckTable is removed only by processing an ACK
\* with its sequence, never by a timeout or by the send duty; a sent sequence
\* whose ACK has not been delivered is in the table in every later state, so
\* the table holds one entry per heartbeat whose ACK is lost.
C18_LostAckLeaksEntry ==
    /\ [][C18_RemovedOnlyByItsAck]_vars
    /\ [](\A s \in SentSeqs : ackDelivered[s] = 0 => s \in DOMAIN writelog)

\* Every heartbeat of the session was sent, time has passed, no ACK was
\* delivered, and all of them are still in the table.
C18_Witness ==
    /\ Len(published) = MaxSeq
    /\ now = MaxTime
    /\ \A s \in SeqNums : ackDelivered[s] = 0
    /\ DOMAIN writelog = SentSeqs
    /\ Cardinality(DOMAIN writelog) = MaxSeq
    /\ subPc = "suspended"

\* C19 (as claimed): over one whole run of the supervisor, interrupt path
\* included, the exit of a child is reported at most once.
C19_ExitReportedAtMostOnce ==
    \A i, j \in 1..Len(exitReports) :
        i # j => exitReports[i][1] # exitReports[j][1]

\* C20: when the receive duty iterates a drained message whose kind is not
\* ACK, the PendingAckTable is unchanged, no ACK line or round trip is logged,
\* nothing is published and no error is raised.
C20_NonAckIgnored ==
    [][(AtSample /\ Head(samples).type # ACK /\ samples' = Tail(samples)) =>
          /\ writelog' = writelog
          /\ acklog' = acklog
          /\ published' = published
          /\ instance' = instance
          /\ iErr' = iErr]_vars

\* Only heartbeats were delivered, one with the sequence of a pending entry
\* among them; all were drained and iterated, and the table still holds both
\* pending entries.
C20_Witness ==
    /\ InitiatorAlive
    /\ nDelivered = MaxDeliver
    /\ \A s \in SeqNums : ackDelivered[s] = 0
    /\ inbox = << >>
    /\ samples = << >>
    /\ subPc = "suspended"
    /\ DOMAIN writelog = {0, 1}
    /\ acklog = << >>

====
